---- MODULE Spec2Model ----
(***************************************************************************)
(* httprouter: the lexical path cleaner (src/src/path.rs) and the routing  *)
(* decision of Router::serve (src/src/router.rs).                          *)
(*                                                                         *)
(* A path is a sequence of one-character strings; Rust's 0-based byte      *)
(* index i is position i + 1 of the sequence.                              *)
(***************************************************************************)
EXTENDS Integers, Sequences, FiniteSets, TLC

VARIABLES
    \* ---- clean (path.rs): the argument, the locals and the position
    p,          \* the argument of clean
    r,          \* next byte to process
    w,          \* next byte to write
    buf,        \* the lazily allocated output buffer (<<>> while unallocated)
    trailing,   \* whether a trailing slash is re-appended
    pc,         \* "start" | "loop" | "done"
    result,     \* the returned string (NoResult until clean returns)
    \* ---- Router (router.rs): the fields of the struct
    trees,                      \* method -> the routes of its tree ({}: no tree)
    keys,                       \* trees.keys() without OPTIONS, in HashMap iteration order
    redirect_trailing_slash,
    redirect_fixed_path,
    handle_method_not_allowed,
    handle_options,
    global_options,
    not_found,
    method_not_allowed,
    \* ---- the call of Router::serve in progress (NoReq: none)
    req,                        \* its request
    outcome,                    \* the ResponseFutKind it is returning
    \* ---- the call of Router::allowed in progress (NoAllowCall: none)
    allow_call,                 \* its argument and the Vec it is returning
    \* ---- what the callers hold of the calls that returned
    futs,                       \* the ResponseFuts not dropped yet, oldest first
    vecs,                       \* the number of Vecs of allowed not dropped yet
    \* ---- the calls of serve that run concurrently on one shared router
    calls                       \* task -> its request, position and locals

cleanVars == <<p, r, w, buf, trailing, pc, result>>

routerVars == <<trees, keys, redirect_trailing_slash, redirect_fixed_path,
                handle_method_not_allowed, handle_options,
                global_options, not_found, method_not_allowed>>

serveVars == <<req, outcome, allow_call, futs, vecs, calls>>

vars == <<cleanVars, routerVars, serveVars>>

(***************************************************************************)
(* Bounds and alphabets                                                    *)
(***************************************************************************)
\* longest argument of clean that is enumerated
MaxLen == 7

\* '/', '.', and two ordinary bytes
CleanAlphabet == {"/", ".", "a", "b"}

\* the byte Vec::resize fills with
Zero == "0"

NoResult == <<"none">>

\* clean did not return: the while loop repeats one state for ever
Hang == <<"hang">>

RECURSIVE StringsOfLen(_, _)
StringsOfLen(A, k) ==
    IF k = 0 THEN {<<>>}
    ELSE {Append(s, c) : s \in StringsOfLen(A, k - 1), c \in A}

StringsUpTo(A, k) == UNION {StringsOfLen(A, i) : i \in 0..k}

CleanInputs == StringsUpTo(CleanAlphabet, MaxLen)

(***************************************************************************)
(* path.rs: clean and buf_app as operators on the locals (r, w, buf,       *)
(* trailing), one operator per arm of the loop's match.                    *)
(***************************************************************************)
Byte(s, i) == s[i + 1]

\* buf.resize(len, 0) on an empty Vec
Zeros(len) == [i \in 1..len |-> Zero]

\* a buf_app that allocates without copying the bytes written so far
BufAppNoCopy(b, s, ww, c) ==
    IF b = <<>>
    THEN IF Byte(s, ww) = c
         THEN b
         ELSE [i \in 1..Len(s) |-> IF i = ww + 1 THEN c ELSE Zero]
    ELSE [b EXCEPT ![ww + 1] = c]

\* buf_app(buf, s, w, c): the buffer afterwards
BufApp(b, s, ww, c) ==
    IF b = <<>>
    THEN IF Byte(s, ww) = c
         THEN b
         ELSE [i \in 1..Len(s) |->
                 IF i <= ww THEN s[i] ELSE IF i = ww + 1 THEN c ELSE Zero]
    ELSE [b EXCEPT ![ww + 1] = c]

\* the locals after lines 19-35 (s is not empty)
CleanInit(s) ==
    LET n == Len(s)
        rooted == s[1] = "/"
    IN  [r |-> IF rooted THEN 1 ELSE 0,
         w |-> 1,
         buf |-> IF rooted THEN <<>> ELSE [Zeros(n + 1) EXCEPT ![1] = "/"],
         trailing |-> n > 1 /\ s[n] = "/"]

\* while w > 1 && t[w] != b'/' { w -= 1 }
RECURSIVE Backtrack(_, _)
Backtrack(t, ww) ==
    IF ww > 1 /\ Byte(t, ww) # "/" THEN Backtrack(t, ww - 1) ELSE ww

\* while r < n && p[r] != b'/' { buf_app(..., w, p[r]); w += 1; r += 1 }
RECURSIVE CopyElement(_, _)
CopyElement(s, st) ==
    IF st.r < Len(s) /\ Byte(s, st.r) # "/"
    THEN CopyElement(s, [st EXCEPT !.buf = BufApp(st.buf, s, st.w, Byte(s, st.r)),
                                   !.w = st.w + 1,
                                   !.r = st.r + 1])
    ELSE st

\* which arm of the match (and of the if chain of the b'.' arm) is taken at r
IsSlash(s, rr) == Byte(s, rr) = "/"
IsDot(s, rr) == Byte(s, rr) = "."
IsDotLast(s, rr) == IsDot(s, rr) /\ rr + 1 = Len(s)
IsDotSlash(s, rr) == IsDot(s, rr) /\ rr + 1 # Len(s) /\ Byte(s, rr + 1) = "/"
IsDotDot(s, rr) ==
    /\ IsDot(s, rr) /\ rr + 1 # Len(s) /\ Byte(s, rr + 1) # "/"
    /\ Byte(s, rr + 1) = "."
    /\ (IF rr + 2 = Len(s) THEN TRUE ELSE Byte(s, rr + 2) = "/")
\* the b'.' arm when none of its three conditions holds: the if chain has no else
IsDotOther(s, rr) ==
    /\ IsDot(s, rr)
    /\ ~IsDotLast(s, rr) /\ ~IsDotSlash(s, rr) /\ ~IsDotDot(s, rr)
IsReal(s, rr) == ~IsSlash(s, rr) /\ ~IsDot(s, rr)

\* b'/' => r += 1
ElemSlash(s, st) == [st EXCEPT !.r = st.r + 1]

\* r + 1 == n: trailing = true; r += 1
ElemDotLast(s, st) == [st EXCEPT !.trailing = TRUE, !.r = st.r + 1]

\* . element: r += 2
ElemDotSlash(s, st) == [st EXCEPT !.r = st.r + 2]

\* a cleaner that copies a '..' element like a real path element
ElemDotDotCopied(s, st) ==
    LET st1 == IF st.w > 1
               THEN [st EXCEPT !.buf = BufApp(st.buf, s, st.w, "/"), !.w = st.w + 1]
               ELSE st
        st2 == [st1 EXCEPT !.buf = BufApp(st1.buf, s, st1.w, "."),
                           !.w = st1.w + 1, !.r = st1.r + 1]
    IN  [st2 EXCEPT !.buf = BufApp(st2.buf, s, st2.w, "."),
                    !.w = st2.w + 1, !.r = st2.r + 1]

\* .. element: r += 3 and backtrack to the last '/'
ElemDotDot(s, st) ==
    [st EXCEPT !.r = st.r + 3,
               !.w = IF st.w > 1
                     THEN IF st.buf = <<>>
                          THEN Backtrack(s, st.w - 1)
                          ELSE Backtrack(st.buf, st.w - 1)
                     ELSE st.w]

\* no branch of the if chain is taken: nothing is assigned
ElemDotOther(s, st) == st

\* real path element: add a slash if needed, then copy the element
ElemReal(s, st) ==
    CopyElement(s, IF st.w > 1
                   THEN [st EXCEPT !.buf = BufApp(st.buf, s, st.w, "/"),
                                   !.w = st.w + 1]
                   ELSE st)

\* one iteration of `while r < n` (lines 39-84)
CleanIter(s, st) ==
    CASE IsSlash(s, st.r) -> ElemSlash(s, st)
      [] IsDotLast(s, st.r) -> ElemDotLast(s, st)
      [] IsDotSlash(s, st.r) -> ElemDotSlash(s, st)
      [] IsDotDot(s, st.r) -> ElemDotDot(s, st)
      [] IsDotOther(s, st.r) -> ElemDotOther(s, st)
      [] OTHER -> ElemReal(s, st)

\* lines 87-96: re-append the trailing slash and return
CleanFinish(s, st) ==
    LET app == st.trailing /\ st.w > 1
        b == IF app THEN BufApp(st.buf, s, st.w, "/") ELSE st.buf
        ww == IF app THEN st.w + 1 ELSE st.w
    IN  IF b = <<>> THEN SubSeq(s, 1, ww) ELSE SubSeq(b, 1, ww)

\* the loop, run to its end; an iteration that assigns nothing repeats for ever
RECURSIVE CleanLoop(_, _)
CleanLoop(s, st) ==
    IF st.r < Len(s)
    THEN LET nx == CleanIter(s, st)
         IN  IF nx = st THEN Hang ELSE CleanLoop(s, nx)
    ELSE CleanFinish(s, st)

\* clean(p)
Clean(s) == IF s = <<>> THEN <<"/">> ELSE CleanLoop(s, CleanInit(s))

(***************************************************************************)
(* The route trees.  matchit::Node is an external crate: its three         *)
(* operations are modelled from their interface (insert, at with its       *)
(* trailing-slash report, path_ignore_case).  A tree is the set of its     *)
(* route patterns ({}: the method has no tree, since handle creates a tree  *)
(* only to insert into it); a route's handler is <<method, pattern>>.      *)
(***************************************************************************)
\* PUT has no route in Routes: a method without a tree
Methods == {"GET", "POST", "PUT", "OPTIONS", "CONNECT"}

\* the routes that are registered: <<method, pattern>>
Routes ==
    { <<"GET", <<"/", "a", "/">>>>,
      <<"GET", <<"/", ":", "x", "/", ":", "y">>>>,
      <<"GET", <<"/", "/">>>>,
      <<"POST", <<"/", "a", "/">>>>,
      <<"POST", <<"/", ":", "x", "/", ":", "y">>>>,
      <<"OPTIONS", <<"/", "a", "/">>>>,
      <<"OPTIONS", <<"/", ":", "x", "/", ":", "y">>>>,
      <<"CONNECT", <<"/", "a", "/">>>> }

\* the request paths that are served
ReqPaths ==
    { <<"/">>,
      <<"/", "a">>,
      <<"/", "a", "/">>,
      <<"/", "A">>,
      <<"/", "A", "/">>,
      <<"/", "a", "/", "/">>,
      <<"/", ".", "a">>,
      <<"/", ".", "a", "/", "A">>,
      <<"/", ".", "a", "/", "/", "A">>,
      <<"/", "a", "/", "A">>,
      <<"/", "a", "/", "A", "/">>,
      <<"*">> }

\* most routes registered on one router
MaxRoutes == 2

\* most ResponseFuts alive at once
MaxFuts == 2

\* most Vecs of allowed alive at once
MaxVecs == 1

\* the tasks that call serve on one shared router at the same time
MaxTasks == 2
Tasks == 1..MaxTasks

NoMatch == <<"nomatch">>

Lower(c) == IF c = "A" THEN "a" ELSE c

Folded(c, fold) == IF fold THEN Lower(c) ELSE c

\* the index of the first '/' of s at or after i, or Len(s) + 1
RECURSIVE SegEnd(_, _)
SegEnd(s, i) == IF i > Len(s) \/ s[i] = "/" THEN i ELSE SegEnd(s, i + 1)

\* the parameters of path under pattern pat from positions i and j on, in
\* pattern order, or NoMatch; with fold, static bytes are compared ignoring case
RECURSIVE MatchFrom(_, _, _, _, _)
MatchFrom(pat, i, path, j, fold) ==
    IF i > Len(pat)
    THEN IF j > Len(path) THEN <<>> ELSE NoMatch
    ELSE IF pat[i] = ":"
    THEN LET ie == SegEnd(pat, i)
             je == SegEnd(path, j)
             rest == MatchFrom(pat, ie, path, je, fold)
         IN  IF je = j \/ rest = NoMatch THEN NoMatch
             ELSE <<<<SubSeq(pat, i + 1, ie - 1), SubSeq(path, j, je - 1)>>>> \o rest
    ELSE IF j <= Len(path) /\ Folded(pat[i], fold) = Folded(path[j], fold)
         THEN MatchFrom(pat, i + 1, path, j + 1, fold)
         ELSE NoMatch

Match(pat, path) == MatchFrom(pat, 1, path, 1, FALSE)

\* the path with a trailing slash added or removed
SlashToggled(path) ==
    IF Len(path) > 1 /\ path[Len(path)] = "/"
    THEN SubSeq(path, 1, Len(path) - 1)
    ELSE Append(path, "/")

\* Node::at(path): Ok(value, params), or Err with its tsr() report
At(node, path) ==
    LET hits == {pat \in node : Match(pat, path) # NoMatch}
    IN  IF hits # {}
        THEN LET pat == CHOOSE h \in hits : TRUE
             IN  [ok |-> TRUE, value |-> pat, params |-> Match(pat, path), tsr |-> FALSE]
        ELSE [ok |-> FALSE, value |-> NoMatch, params |-> <<>>,
              tsr |-> \E pat \in node : Match(pat, SlashToggled(path)) # NoMatch]

\* path with the bytes of its static segments written as pat has them
RECURSIVE Recased(_, _, _, _)
Recased(pat, i, path, j) ==
    IF i > Len(pat) THEN <<>>
    ELSE IF pat[i] = ":"
    THEN SubSeq(path, j, SegEnd(path, j) - 1)
            \o Recased(pat, SegEnd(pat, i), path, SegEnd(path, j))
    ELSE <<pat[i]>> \o Recased(pat, i + 1, path, j + 1)

IgnoreCaseHits(node, path) ==
    {Recased(pat, 1, path, 1) :
        pat \in {q \in node : MatchFrom(q, 1, path, 1, TRUE) # NoMatch}}

NoPath == <<"nopath">>

\* Node::path_ignore_case(path, fix_trailing_slash): Some(fixed path) or None
PathIgnoreCase(node, path, fix) ==
    LET hits == IgnoreCaseHits(node, path)
        slashed == IgnoreCaseHits(node, SlashToggled(path))
    IN  IF hits # {} THEN CHOOSE h \in hits : TRUE
        ELSE IF fix /\ slashed # {} THEN CHOOSE h \in slashed : TRUE
        ELSE NoPath

\* Node::insert fails when a parameter and other bytes claim one position
RECURSIVE Conflict(_, _, _)
Conflict(a, b, i) ==
    IF i > Len(a) \/ i > Len(b) THEN FALSE
    ELSE IF a[i] = b[i] THEN Conflict(a, b, i + 1)
    ELSE a[i] = ":" \/ b[i] = ":" \/ (i > 1 /\ a[i - 1] = ":")

InsertOk(node, pat) ==
    /\ pat \notin node
    /\ \A q \in node : ~Conflict(pat, q, 1)

(***************************************************************************)
(* router.rs: Router::allowed and Router::serve                            *)
(***************************************************************************)
MOVED_PERMANENTLY == 301
PERMANENT_REDIRECT == 308

None == "None"

\* the values of an Option<Box<dyn StoredService>>: a route's handler is
\* <<method, pattern>>, a fallback handler one of these
NoHandler == <<"None">>
DefaultNotFound == <<"default_not_found">>
UserGlobalOptions == <<"user_global_options">>
UserNotFound == <<"user_not_found">>
UserMethodNotAllowed == <<"user_method_not_allowed">>

Star == <<"*">>

\* the request carries no Params extension / the response no header
NoParams == <<"noparams">>
NoHeader == <<"noheader">>
NoReq == [method |-> None, path |-> NoPath]

RECURSIVE JoinComma(_, _)
\* a join whose separator is a comma without the space
JoinComma(list, i) ==
    IF i > Len(list) THEN <<>>
    ELSE (IF i > 1 THEN <<",">> ELSE <<>>) \o <<list[i]>> \o JoinComma(list, i + 1)

RECURSIVE Join(_, _)
\* allow.join(", ")
Join(list, i) ==
    IF i > Len(list) THEN <<>>
    ELSE (IF i > 1 THEN <<", ">> ELSE <<>>) \o <<list[i]>> \o Join(list, i + 1)

\* an allowed that does not append OPTIONS
AllowedWithoutOptions(path) ==
    LET Counts(m) == path = Star \/ At(trees[m], path).ok
    IN  SelectSeq(keys, Counts)

\* Router::allowed(path)
Allowed(path) ==
    LET Counts(m) == path = Star \/ At(trees[m], path).ok
        allowed == SelectSeq(keys, Counts)
    IN  IF allowed # <<>> THEN Append(allowed, "OPTIONS") ELSE allowed

\* the five kinds of ResponseFutKind; `via` names the return statement of serve
\* that built the value, `cleaned` the argument serve gave to clean (NoPath: none)
\* `params` and `allow` are what the router attaches to the request it hands to
\* a handler, or to the response it synthesizes (NoParams, NoHeader: nothing)
Outcome(kind, via) ==
    [kind |-> kind, via |-> via, handler |-> NoHandler, params |-> NoParams,
     location |-> NoPath, code |-> 0, allow |-> NoHeader, cleaned |-> NoPath]

Boxed(handler, params, via) ==
    [Outcome("Boxed", via) EXCEPT !.handler = handler, !.params = params]

Redirect(path, code, via) ==
    [Outcome("Redirect", via) EXCEPT !.location = path, !.code = code]

\* serve called clean and clean does not return
NoReturn(path) == [Outcome("NoReturn", "clean") EXCEPT !.cleaned = path]

\* the status the documentation of the redirect options names for non-GET
RedirectCode307(method) ==
    IF method = "GET" THEN MOVED_PERMANENTLY ELSE 307

\* lines 658-663
RedirectCode(method) ==
    IF method = "GET" THEN MOVED_PERMANENTLY ELSE PERMANENT_REDIRECT

\* a toggle that only ever appends
ToggleSlashAppends(path) == path \o <<"/">>

\* lines 666-670
ToggleSlash(path) ==
    IF Len(path) > 1 /\ path[Len(path)] = "/"
    THEN SubSeq(path, 1, Len(path) - 1)
    ELSE path \o <<"/">>

\* lines 707-710
ServeNotFound ==
    IF not_found # NoHandler
    THEN Boxed(not_found, NoParams, "not_found")
    ELSE Outcome("NotFound", "not_found")

\* a fallback that answers OPTIONS requests whatever handle_options is
ServeFallbackAlwaysOptions(method, path) ==
    IF method = "OPTIONS"
    THEN LET allow == Allowed(path)
         IN  IF allow # <<>>
             THEN IF global_options # NoHandler
                  THEN Boxed(global_options, NoParams, "options")
                  ELSE [Outcome("Options", "options") EXCEPT !.allow = Join(allow, 1)]
             ELSE ServeNotFound
    ELSE IF handle_method_not_allowed
    THEN LET allow == Allowed(path)
         IN  IF allow # <<>>
             THEN IF method_not_allowed # NoHandler
                  THEN Boxed(method_not_allowed, NoParams, "method_not_allowed")
                  ELSE [Outcome("MethodNotAllowed", "method_not_allowed")
                            EXCEPT !.allow = Join(allow, 1)]
             ELSE ServeNotFound
    ELSE ServeNotFound

\* lines 687-710
ServeFallback(method, path) ==
    IF method = "OPTIONS" /\ handle_options
    THEN LET allow == Allowed(path)
         IN  IF allow # <<>>
             THEN IF global_options # NoHandler
                  THEN Boxed(global_options, NoParams, "options")
                  ELSE [Outcome("Options", "options") EXCEPT !.allow = Join(allow, 1)]
             ELSE ServeNotFound
    ELSE IF handle_method_not_allowed
    THEN LET allow == Allowed(path)
         IN  IF allow # <<>>
             THEN IF method_not_allowed # NoHandler
                  THEN Boxed(method_not_allowed, NoParams, "method_not_allowed")
                  ELSE [Outcome("MethodNotAllowed", "method_not_allowed")
                            EXCEPT !.allow = Join(allow, 1)]
             ELSE ServeNotFound
    ELSE ServeNotFound

\* a fixed-path step that redirects to the cleaned path, not to the path
\* the case-insensitive lookup returned
ServeFixedPathToCleaned(method, path) ==
    IF redirect_fixed_path
    THEN LET cleaned == Clean(path)
             fixed == PathIgnoreCase(trees[method], cleaned, redirect_trailing_slash)
         IN  IF cleaned = Hang THEN NoReturn(path)
             ELSE IF fixed # NoPath
             THEN [Redirect(cleaned, RedirectCode(method), "fixed_path")
                       EXCEPT !.cleaned = path]
             ELSE [ServeFallback(method, path) EXCEPT !.cleaned = path]
    ELSE ServeFallback(method, path)

\* lines 675-681, then the fallback
ServeFixedPath(method, path) ==
    IF redirect_fixed_path
    THEN LET cleaned == Clean(path)
             fixed == PathIgnoreCase(trees[method], cleaned, redirect_trailing_slash)
         IN  IF cleaned = Hang THEN NoReturn(path)
             ELSE IF fixed # NoPath
             THEN [Redirect(fixed, RedirectCode(method), "fixed_path")
                       EXCEPT !.cleaned = path]
             ELSE [ServeFallback(method, path) EXCEPT !.cleaned = path]
    ELSE ServeFallback(method, path)

\* an error arm without the CONNECT and "/" guard of line 657
ServeErrUnguarded(method, path, err) ==
    IF err.tsr /\ redirect_trailing_slash
    THEN Redirect(ToggleSlash(path), RedirectCode(method), "trailing_slash")
    ELSE ServeFixedPath(method, path)

\* lines 656-683
ServeErr(method, path, err) ==
    IF method # "CONNECT" /\ path # <<"/">>
    THEN IF err.tsr /\ redirect_trailing_slash
         THEN Redirect(ToggleSlash(path), RedirectCode(method), "trailing_slash")
         ELSE ServeFixedPath(method, path)
    ELSE ServeFallback(method, path)

\* a serve that answers OPTIONS automatically before it looks the route up
ServeOptionsFirst(method, path) ==
    IF method = "OPTIONS" /\ handle_options /\ Allowed(path) # <<>>
    THEN ServeFallback(method, path)
    ELSE IF trees[method] # {}
    THEN LET lookup == At(trees[method], path)
         IN  IF lookup.ok
             THEN Boxed(<<method, lookup.value>>, lookup.params, "exact")
             ELSE ServeErr(method, path, lookup)
    ELSE ServeFallback(method, path)

\* Router::serve(req): the ResponseFutKind it returns
Serve(method, path) ==
    IF trees[method] # {}
    THEN LET lookup == At(trees[method], path)
         IN  IF lookup.ok
             THEN Boxed(<<method, lookup.value>>, lookup.params, "exact")
             ELSE ServeErr(method, path, lookup)
    ELSE ServeFallback(method, path)

NoOutcome == Outcome(None, None)

(***************************************************************************)
(* router.rs: impl Future for ResponseFut                                  *)
(***************************************************************************)
NOT_FOUND == 404
METHOD_NOT_ALLOWED == 405
\* the status of a Response::builder() that sets none
OK == 200
\* the status of the default not_found handler
BAD_REQUEST == 400

\* what a poll of a future returns: Pending, Ready(Ok(response)) or
\* Ready(Err(error)); `by` is the handler that made the response or the
\* error (NoHandler: the router made it)
PollValue(tag, status, location, allow, by) ==
    [tag |-> tag, status |-> status, location |-> location, allow |-> allow, by |-> by]

Pending == PollValue("Pending", 0, NoPath, NoHeader, NoHandler)
ReadyOk(status, location, allow, by) == PollValue("Ok", status, location, allow, by)
ReadyErr(by) == PollValue("Err", 0, NoPath, NoHeader, by)

\* no future was polled
NoValue == PollValue(None, 0, NoPath, NoHeader, NoHandler)

\* a handler's response: the default not_found handler answers 400
HandlerOk(handler) ==
    ReadyOk(IF handler = DefaultNotFound THEN BAD_REQUEST ELSE OK,
            NoPath, NoHeader, handler)

\* what one poll of a handler's future can return.  The default not_found
\* handler is `async { Ok(..) }`: ready at once, never an error.
InnerPolls(handler) ==
    IF handler = DefaultNotFound
    THEN {HandlerOk(handler)}
    ELSE {Pending, HandlerOk(handler), ReadyErr(handler)}

\* what the poll of a ResponseFut polls inside: the handler's future of a
\* Boxed, nothing otherwise
InnerOf(out) == IF out.kind = "Boxed" THEN InnerPolls(out.handler) ELSE {NoValue}

NotPolled == [inner |-> NoValue, value |-> NoValue]

\* the ResponseFut serve returns: it holds its kind and nothing of the router
\* (`out` without the notes on how serve came to it)
ResponseFut(out) ==
    [out |-> [out EXCEPT !.via = None, !.cleaned = NoPath], polled |-> NotPolled]

\* a poll that replaces a handler's error by the NotFound response
PollSwallowsErr(fut, inner) ==
    LET out == fut.out IN
    [inner |-> inner,
     value |->
        IF out.kind = "Boxed"
        THEN IF inner.tag = "Err"
             THEN ReadyOk(NOT_FOUND, NoPath, NoHeader, NoHandler)
             ELSE inner
        ELSE IF out.kind = "Redirect"
        THEN ReadyOk(out.code, out.location, NoHeader, NoHandler)
        ELSE IF out.kind = "NotFound"
        THEN ReadyOk(NOT_FOUND, NoPath, NoHeader, NoHandler)
        ELSE IF out.kind = "Options"
        THEN ReadyOk(OK, NoPath, out.allow, NoHandler)
        ELSE ReadyOk(METHOD_NOT_ALLOWED, NoPath, out.allow, NoHandler)]

\* a poll that is Pending once before it synthesizes a response
PollYieldsFirst(fut, inner) ==
    LET out == fut.out IN
    [inner |-> inner,
     value |->
        IF out.kind = "Boxed" THEN inner
        ELSE IF fut.polled = NotPolled THEN Pending
        ELSE IF out.kind = "Redirect"
        THEN ReadyOk(out.code, out.location, NoHeader, NoHandler)
        ELSE IF out.kind = "NotFound"
        THEN ReadyOk(NOT_FOUND, NoPath, NoHeader, NoHandler)
        ELSE IF out.kind = "Options"
        THEN ReadyOk(OK, NoPath, out.allow, NoHandler)
        ELSE ReadyOk(METHOD_NOT_ALLOWED, NoPath, out.allow, NoHandler)]

\* ResponseFut::poll on the future `fut`, its inner future returning `inner`:
\* what the inner poll returned and what poll returns
Poll(fut, inner) ==
    LET out == fut.out IN
    [inner |-> inner,
     value |->
        IF out.kind = "Boxed" THEN inner
        ELSE IF out.kind = "Redirect"
        THEN ReadyOk(out.code, out.location, NoHeader, NoHandler)
        ELSE IF out.kind = "NotFound"
        THEN ReadyOk(NOT_FOUND, NoPath, NoHeader, NoHandler)
        ELSE IF out.kind = "Options"
        THEN ReadyOk(OK, NoPath, out.allow, NoHandler)
        ELSE ReadyOk(METHOD_NOT_ALLOWED, NoPath, out.allow, NoHandler)]

(***************************************************************************)
(* The router as a process: the builder calls and serve                    *)
(***************************************************************************)
\* impl Default for Router
RouterDefault ==
    /\ trees = [m \in Methods |-> {}]
    /\ keys = <<>>
    /\ redirect_trailing_slash = TRUE
    /\ redirect_fixed_path = TRUE
    /\ handle_method_not_allowed = TRUE
    /\ handle_options = TRUE
    /\ global_options = NoHandler
    /\ method_not_allowed = NoHandler
    /\ not_found = DefaultNotFound

\* no call of allowed yet
NoAllowCall == [path |-> NoPath, list |-> <<>>]

\* a task that is not in serve
IdleCall ==
    [req |-> NoReq, pc |-> "idle", lookup |-> At({}, <<>>), cleaned |-> NoPath,
     outcome |-> NoOutcome, alone |-> NoOutcome, shared |-> <<>>]

\* no call of serve or allowed is in progress
NoCall ==
    /\ req = NoReq /\ outcome = NoOutcome
    /\ allow_call = NoAllowCall
    /\ calls = [t \in Tasks |-> IdleCall]

\* no caller holds a ResponseFut or a Vec of allowed
NothingLive ==
    /\ futs = <<>>
    /\ vecs = 0

\* the router can be moved: it is borrowed neither by a call in progress nor
\* by a Vec<&str> that allowed returned
NotBorrowed ==
    /\ NoCall
    /\ vecs = 0

\* clean is not running
CleanIdle ==
    /\ p = <<>>
    /\ r = 1
    /\ w = 1
    /\ buf = <<>>
    /\ trailing = FALSE
    /\ pc = "idle"
    /\ result = NoResult

\* The builder methods take the router by value and serve and allowed borrow
\* it, so the calls on one router are sequential: a builder call or the next
\* call follows the return of the last one.  The ResponseFut that serve
\* returned borrows nothing: it lives on through later calls.
\* A Router with no route yet.  serve reads the four flags and the three
\* fallback handlers whatever they hold, so every value of them is a start;
\* Router::default() is the one with the flags on and only not_found set.
Init ==
    /\ CleanIdle
    /\ trees = [m \in Methods |-> {}]
    /\ keys = <<>>
    /\ redirect_trailing_slash \in BOOLEAN
    /\ redirect_fixed_path \in BOOLEAN
    /\ handle_method_not_allowed \in BOOLEAN
    /\ handle_options \in BOOLEAN
    /\ global_options \in {NoHandler, UserGlobalOptions}
    /\ method_not_allowed \in {NoHandler, UserMethodNotAllowed}
    /\ not_found \in {NoHandler, DefaultNotFound}
    /\ NoCall
    /\ NothingLive

RouteCount == Cardinality({rt \in Routes : rt[2] \in trees[rt[1]]})

\* keys with m put at position i
InsertAt(seq, i, m) == SubSeq(seq, 1, i - 1) \o <<m>> \o SubSeq(seq, i, Len(seq))

\* Router::handle(path, method, handler), and get/post/... through it.  A
\* path without a leading '/' and a failed insert panic: no router results.
Handle(method, pat) ==
    /\ NotBorrowed
    /\ RouteCount < MaxRoutes
    /\ pat[1] = "/"
    /\ InsertOk(trees[method], pat)
    /\ trees' = [trees EXCEPT ![method] = @ \cup {pat}]
    /\ IF trees[method] = {} /\ method # "OPTIONS"
       THEN \E i \in 1..(Len(keys) + 1) : keys' = InsertAt(keys, i, method)
       ELSE keys' = keys
    /\ UNCHANGED serveVars
    /\ UNCHANGED <<redirect_trailing_slash, redirect_fixed_path,
                   handle_method_not_allowed, handle_options,
                   global_options, not_found, method_not_allowed, cleanVars>>

SetRedirectTrailingSlash ==
    /\ NotBorrowed
    /\ redirect_trailing_slash' = TRUE
    /\ UNCHANGED serveVars
    /\ UNCHANGED <<trees, keys, redirect_fixed_path, handle_method_not_allowed,
                   handle_options, global_options, not_found, method_not_allowed,
                   cleanVars>>

SetRedirectFixedPath ==
    /\ NotBorrowed
    /\ redirect_fixed_path' = TRUE
    /\ UNCHANGED serveVars
    /\ UNCHANGED <<trees, keys, redirect_trailing_slash, handle_method_not_allowed,
                   handle_options, global_options, not_found, method_not_allowed,
                   cleanVars>>

SetHandleMethodNotAllowed ==
    /\ NotBorrowed
    /\ handle_method_not_allowed' = TRUE
    /\ UNCHANGED serveVars
    /\ UNCHANGED <<trees, keys, redirect_trailing_slash, redirect_fixed_path,
                   handle_options, global_options, not_found, method_not_allowed,
                   cleanVars>>

\* a setter that flips the flag instead of setting it
SetHandleOptionsFlips ==
    /\ NotBorrowed
    /\ handle_options' = ~handle_options
    /\ UNCHANGED serveVars
    /\ UNCHANGED <<trees, keys, redirect_trailing_slash, redirect_fixed_path,
                   handle_method_not_allowed, global_options, not_found,
                   method_not_allowed, cleanVars>>

SetHandleOptions ==
    /\ NotBorrowed
    /\ handle_options' = TRUE
    /\ UNCHANGED serveVars
    /\ UNCHANGED <<trees, keys, redirect_trailing_slash, redirect_fixed_path,
                   handle_method_not_allowed, global_options, not_found,
                   method_not_allowed, cleanVars>>

SetGlobalOptions ==
    /\ NotBorrowed
    /\ global_options' = UserGlobalOptions
    /\ UNCHANGED serveVars
    /\ UNCHANGED <<trees, keys, redirect_trailing_slash, redirect_fixed_path,
                   handle_method_not_allowed, handle_options, not_found,
                   method_not_allowed, cleanVars>>

SetNotFound ==
    /\ NotBorrowed
    /\ not_found' = UserNotFound
    /\ UNCHANGED serveVars
    /\ UNCHANGED <<trees, keys, redirect_trailing_slash, redirect_fixed_path,
                   handle_method_not_allowed, handle_options, global_options,
                   method_not_allowed, cleanVars>>

SetMethodNotAllowed ==
    /\ NotBorrowed
    /\ method_not_allowed' = UserMethodNotAllowed
    /\ UNCHANGED serveVars
    /\ UNCHANGED <<trees, keys, redirect_trailing_slash, redirect_fixed_path,
                   handle_method_not_allowed, handle_options, global_options,
                   not_found, cleanVars>>

\* Router::serve(req) is called on the router as it stands and runs up to
\* its return statement
ServeRequest(method, path) ==
    /\ NoCall
    /\ req' = [method |-> method, path |-> path]
    /\ outcome' = Serve(method, path)
    /\ UNCHANGED <<routerVars, cleanVars, allow_call, futs, vecs, calls>>

\* serve returns its ResponseFut (a serve that called a clean that hangs
\* does not).  The caller keeps the future, or drops it at once.
ServeReturn(keep) ==
    /\ req # NoReq
    /\ outcome.kind # "NoReturn"
    /\ keep => Len(futs) < MaxFuts
    /\ req' = NoReq /\ outcome' = NoOutcome
    /\ futs' = IF keep THEN Append(futs, ResponseFut(outcome)) ELSE futs
    /\ UNCHANGED <<routerVars, cleanVars, allow_call, vecs, calls>>

\* one poll of the i-th live ResponseFut; a future is not polled again once
\* it was Ready
PollStep(i) ==
    /\ i \in DOMAIN futs
    /\ futs[i].polled.value.tag \in {None, "Pending"}
    /\ \E inner \in InnerOf(futs[i].out) :
          futs' = [futs EXCEPT ![i].polled = Poll(futs[i], inner)]
    /\ UNCHANGED <<routerVars, cleanVars, req, outcome, allow_call, vecs, calls>>

\* the i-th live ResponseFut is dropped, resolved or not
DropFut(i) ==
    /\ i \in DOMAIN futs
    /\ futs' = SubSeq(futs, 1, i - 1) \o SubSeq(futs, i + 1, Len(futs))
    /\ UNCHANGED <<routerVars, cleanVars, req, outcome, allow_call, vecs, calls>>

\* the arguments Router::allowed is called with
AllowedPaths == ReqPaths \cup {<<"/", "b">>}

\* Router::allowed(path) is called on the router as it stands and runs up to
\* its return statement
AllowedRequest(path) ==
    /\ NoCall
    /\ allow_call' = [path |-> path, list |-> Allowed(path)]
    /\ UNCHANGED <<routerVars, cleanVars, req, outcome, futs, vecs, calls>>

\* allowed returns its Vec<&str>, which borrows the router.  The caller keeps
\* it, or drops it at once.
AllowedReturn(keep) ==
    /\ allow_call # NoAllowCall
    /\ keep => vecs < MaxVecs
    /\ allow_call' = NoAllowCall
    /\ vecs' = IF keep THEN vecs + 1 ELSE vecs
    /\ UNCHANGED <<routerVars, cleanVars, req, outcome, futs, calls>>

\* a Vec that allowed returned is dropped
DropVec ==
    /\ vecs > 0
    /\ vecs' = vecs - 1
    /\ UNCHANGED <<routerVars, cleanVars, req, outcome, allow_call, futs, calls>>

Next ==
    \/ \E rt \in Routes : Handle(rt[1], rt[2])
    \/ SetRedirectTrailingSlash
    \/ SetRedirectFixedPath
    \/ SetHandleMethodNotAllowed
    \/ SetHandleOptions
    \/ SetGlobalOptions
    \/ SetNotFound
    \/ SetMethodNotAllowed
    \/ \E m \in Methods, path \in ReqPaths : ServeRequest(m, path)
    \/ ServeReturn(FALSE)
    \/ \E path \in AllowedPaths : AllowedRequest(path)
    \/ AllowedReturn(FALSE)

\* the routers the builder methods make and the calls of serve and allowed on
\* them; the caller holds on to nothing the calls return (SpecFut: it does)
Spec == Init /\ [][Next]_vars

\* Router::default(), no call made yet
InitDefault ==
    /\ CleanIdle
    /\ RouterDefault
    /\ NoCall
    /\ NothingLive

\* the routers built from Router::default() by the builder methods, and the
\* calls of serve and allowed on them
SpecDefault == InitDefault /\ [][Next]_vars

\* the routes, requests and allowed paths of the calls whose results are kept
FutRoutes == {<<"GET", <<"/", "a", "/">>>>, <<"POST", <<"/", "a", "/">>>>}
FutReqs ==
    { [method |-> "GET", path |-> <<"/", "a", "/">>],
      [method |-> "GET", path |-> <<"/", "a">>],
      [method |-> "OPTIONS", path |-> <<"/", "a", "/">>] }
FutAllowedPaths == {<<"/", "a", "/">>}

\* A router without routes yet, its flags on as Router::default() sets them,
\* with no fallback handler, the default not_found handler only, or the three
\* fallback handlers set by the builder.
InitFut ==
    /\ CleanIdle
    /\ trees = [m \in Methods |-> {}]
    /\ keys = <<>>
    /\ redirect_trailing_slash = TRUE
    /\ redirect_fixed_path = TRUE
    /\ handle_method_not_allowed = TRUE
    /\ handle_options = TRUE
    /\ \/ /\ global_options = NoHandler
          /\ method_not_allowed = NoHandler
          /\ not_found \in {NoHandler, DefaultNotFound}
       \/ /\ global_options = UserGlobalOptions
          /\ method_not_allowed = UserMethodNotAllowed
          /\ not_found = UserNotFound
    /\ NoCall
    /\ NothingLive

NextFut ==
    \/ \E rt \in FutRoutes : Handle(rt[1], rt[2])
    \/ \E rq \in FutReqs : ServeRequest(rq.method, rq.path)
    \/ \E keep \in BOOLEAN : ServeReturn(keep)
    \/ \E i \in 1..MaxFuts : PollStep(i)
    \/ \E i \in 1..MaxFuts : DropFut(i)
    \/ \E path \in FutAllowedPaths : AllowedRequest(path)
    \/ \E keep \in BOOLEAN : AllowedReturn(keep)
    \/ DropVec

\* the calls of route registration, serve and allowed while ResponseFuts and
\* Vecs of earlier calls are alive, and the polls of the futures
SpecFut == InitFut /\ [][NextFut]_vars

(***************************************************************************)
(* Concurrent calls of serve on one Arc<Router> (RouterService::call).     *)
(* serve reads the router in three places: the lookup in the method's      *)
(* tree, the redirect decision and the fallback; the calls of the tasks    *)
(* interleave between them.                                                *)
(***************************************************************************)
\* the requests the tasks send
SharedReqs ==
    { [method |-> "GET", path |-> <<"/", "a", "/">>],
      [method |-> "GET", path |-> <<"/", "a">>],
      [method |-> "GET", path |-> <<"/", "A", "/">>],
      [method |-> "GET", path |-> <<"/", ".", "a">>],
      [method |-> "OPTIONS", path |-> <<"/", "a", "/">>],
      [method |-> "PUT", path |-> <<"/", "a", "/">>] }

\* the shared router: the routes GET /a/ and POST /a/
InitShared ==
    /\ CleanIdle
    /\ trees = [m \in Methods |->
                    IF m \in {"GET", "POST"} THEN {<<"/", "a", "/">>} ELSE {}]
    /\ keys \in {<<"GET", "POST">>, <<"POST", "GET">>}
    /\ redirect_trailing_slash \in BOOLEAN
    /\ redirect_fixed_path \in BOOLEAN
    /\ handle_method_not_allowed \in BOOLEAN
    /\ handle_options \in BOOLEAN
    /\ global_options \in {NoHandler, UserGlobalOptions}
    /\ method_not_allowed = NoHandler
    /\ not_found = DefaultNotFound
    /\ NoCall
    /\ NothingLive

\* task t calls serve(rq); `alone` is what serve(rq) returns on the router
\* as it is now, `shared` the router as it is now
SharedCall(t, rq) ==
    /\ calls[t].pc = "idle"
    /\ calls' = [calls EXCEPT ![t] =
                    [IdleCall EXCEPT !.req = rq, !.pc = "lookup",
                                     !.alone = Serve(rq.method, rq.path),
                                     !.shared = routerVars]]
    /\ UNCHANGED <<routerVars, cleanVars, req, outcome, allow_call, futs, vecs>>

\* what the lookup of lines 642-655 leaves task t with
LookedUp(c) ==
    IF trees[c.req.method] # {}
    THEN LET lookup == At(trees[c.req.method], c.req.path)
         IN  IF lookup.ok
             THEN [c EXCEPT !.pc = "done",
                            !.outcome = Boxed(<<c.req.method, lookup.value>>,
                                              lookup.params, "exact")]
             ELSE [c EXCEPT !.pc = "err", !.lookup = lookup]
    ELSE [c EXCEPT !.pc = "fallback"]

\* a lookup that moves the method it looked up to the front of the method table
SharedLookupReorders(t) ==
    /\ calls[t].pc = "lookup"
    /\ calls' = [calls EXCEPT ![t] = LookedUp(calls[t])]
    /\ keys' = SelectSeq(keys, LAMBDA m : m = calls[t].req.method)
                    \o SelectSeq(keys, LAMBDA m : m # calls[t].req.method)
    /\ UNCHANGED <<trees, redirect_trailing_slash, redirect_fixed_path,
                   handle_method_not_allowed, handle_options,
                   global_options, not_found, method_not_allowed>>
    /\ UNCHANGED <<cleanVars, req, outcome, allow_call, futs, vecs>>

\* lines 642-655
SharedLookup(t) ==
    /\ calls[t].pc = "lookup"
    /\ calls' = [calls EXCEPT ![t] = LookedUp(calls[t])]
    /\ UNCHANGED <<routerVars, cleanVars, req, outcome, allow_call, futs, vecs>>

\* lines 656-683: a redirect is returned, or clean does not return, or the
\* task goes on to the fallback
SharedRedirect(t) ==
    /\ calls[t].pc = "err"
    /\ LET c == calls[t]
           out == ServeErr(c.req.method, c.req.path, c.lookup)
       IN  calls' = [calls EXCEPT ![t] =
                IF out.kind = "Redirect" THEN [c EXCEPT !.pc = "done", !.outcome = out]
                ELSE IF out.kind = "NoReturn" THEN [c EXCEPT !.pc = "hung", !.outcome = out]
                ELSE [c EXCEPT !.pc = "fallback", !.cleaned = out.cleaned]]
    /\ UNCHANGED <<routerVars, cleanVars, req, outcome, allow_call, futs, vecs>>

\* lines 687-710
SharedFallback(t) ==
    /\ calls[t].pc = "fallback"
    /\ LET c == calls[t]
       IN  calls' = [calls EXCEPT ![t] =
                [c EXCEPT !.pc = "done",
                          !.outcome = [ServeFallback(c.req.method, c.req.path)
                                          EXCEPT !.cleaned = c.cleaned]]]
    /\ UNCHANGED <<routerVars, cleanVars, req, outcome, allow_call, futs, vecs>>

\* the ResponseFut of task t is dropped
SharedDrop(t) ==
    /\ calls[t].pc = "done"
    /\ calls' = [calls EXCEPT ![t] = IdleCall]
    /\ UNCHANGED <<routerVars, cleanVars, req, outcome, allow_call, futs, vecs>>

NextShared ==
    \/ \E t \in Tasks, rq \in SharedReqs : SharedCall(t, rq)
    \/ \E t \in Tasks : SharedLookup(t)
    \/ \E t \in Tasks : SharedRedirect(t)
    \/ \E t \in Tasks : SharedFallback(t)
    \/ \E t \in Tasks : SharedDrop(t)

SpecShared == InitShared /\ [][NextShared]_vars

(***************************************************************************)
(* clean as a process: one action per step of the function                 *)
(***************************************************************************)
locals == [r |-> r, w |-> w, buf |-> buf, trailing |-> trailing]

SetLocals(st) ==
    /\ r' = st.r
    /\ w' = st.w
    /\ buf' = st.buf
    /\ trailing' = st.trailing

InitClean ==
    /\ p \in CleanInputs
    /\ r = 1
    /\ w = 1
    /\ buf = <<>>
    /\ trailing = FALSE
    /\ pc = "start"
    /\ result = NoResult
    /\ RouterDefault
    /\ NoCall
    /\ NothingLive

\* lines 15-17: the empty string returns "/"
CleanEmpty ==
    /\ pc = "start" /\ p = <<>>
    /\ pc' = "done"
    /\ result' = <<"/">>
    /\ UNCHANGED <<p, r, w, buf, trailing>>
    /\ UNCHANGED <<routerVars, serveVars>>

\* lines 19-36
CleanStart ==
    /\ pc = "start" /\ p # <<>>
    /\ SetLocals(CleanInit(p))
    /\ pc' = "loop"
    /\ UNCHANGED <<p, result>>
    /\ UNCHANGED <<routerVars, serveVars>>

\* the guard of the while loop
InLoop == pc = "loop" /\ r < Len(p)

StepSlash ==
    /\ InLoop /\ IsSlash(p, r)
    /\ SetLocals(ElemSlash(p, locals))
    /\ UNCHANGED <<p, pc, result>>
    /\ UNCHANGED <<routerVars, serveVars>>

StepDotLast ==
    /\ InLoop /\ IsDotLast(p, r)
    /\ SetLocals(ElemDotLast(p, locals))
    /\ UNCHANGED <<p, pc, result>>
    /\ UNCHANGED <<routerVars, serveVars>>

StepDotSlash ==
    /\ InLoop /\ IsDotSlash(p, r)
    /\ SetLocals(ElemDotSlash(p, locals))
    /\ UNCHANGED <<p, pc, result>>
    /\ UNCHANGED <<routerVars, serveVars>>

StepDotDot ==
    /\ InLoop /\ IsDotDot(p, r)
    /\ SetLocals(ElemDotDot(p, locals))
    /\ UNCHANGED <<p, pc, result>>
    /\ UNCHANGED <<routerVars, serveVars>>

StepDotOther ==
    /\ InLoop /\ IsDotOther(p, r)
    /\ SetLocals(ElemDotOther(p, locals))
    /\ UNCHANGED <<p, pc, result>>
    /\ UNCHANGED <<routerVars, serveVars>>

StepReal ==
    /\ InLoop /\ IsReal(p, r)
    /\ SetLocals(ElemReal(p, locals))
    /\ UNCHANGED <<p, pc, result>>
    /\ UNCHANGED <<routerVars, serveVars>>

\* lines 87-96
CleanReturn ==
    /\ pc = "loop" /\ r >= Len(p)
    /\ pc' = "done"
    /\ result' = CleanFinish(p, locals)
    /\ UNCHANGED <<p, r, w, buf, trailing>>
    /\ UNCHANGED <<routerVars, serveVars>>

NextClean ==
    \/ CleanEmpty
    \/ CleanStart
    \/ StepSlash
    \/ StepDotLast
    \/ StepDotSlash
    \/ StepDotDot
    \/ StepDotOther
    \/ StepReal
    \/ CleanReturn

SpecClean == InitClean /\ [][NextClean]_vars

(***************************************************************************)
(* Properties of clean (checked under SpecClean)                           *)
(***************************************************************************)
\* the segments of s between its '/' bytes (empty segments included)
RECURSIVE SplitFrom(_, _, _)
SplitFrom(s, i, cur) ==
    IF i > Len(s) THEN <<cur>>
    ELSE IF s[i] = "/" THEN <<cur>> \o SplitFrom(s, i + 1, <<>>)
    ELSE SplitFrom(s, i + 1, Append(cur, s[i]))

Segments(s) == SplitFrom(s, 1, <<>>)

DotSeg == <<".">>
DotDotSeg == <<".", ".">>

\* the kept segments: '' and '.' dropped, '..' pops the last kept segment
RECURSIVE RefKeep(_, _, _)
RefKeep(segs, i, kept) ==
    IF i > Len(segs) THEN kept
    ELSE LET g == segs[i]
         IN  IF g = <<>> \/ g = DotSeg THEN RefKeep(segs, i + 1, kept)
             ELSE IF g = DotDotSeg
                  THEN RefKeep(segs, i + 1,
                               IF kept = <<>> THEN kept
                               ELSE SubSeq(kept, 1, Len(kept) - 1))
                  ELSE RefKeep(segs, i + 1, Append(kept, g))

RECURSIVE JoinSlash(_, _)
JoinSlash(kept, i) ==
    IF i > Len(kept) THEN <<>>
    ELSE (IF i > 1 THEN <<"/">> ELSE <<>>) \o kept[i] \o JoinSlash(kept, i + 1)

\* the reference normalisation
RefClean(s) ==
    LET segs == Segments(s)
        kept == RefKeep(segs, 1, <<>>)
        slash == /\ kept # <<>>
                 /\ \/ (Len(s) > 1 /\ s[Len(s)] = "/")
                    \/ segs[Len(segs)] = DotSeg
    IN  <<"/">> \o JoinSlash(kept, 1) \o (IF slash THEN <<"/">> ELSE <<>>)

\* clean is not stuck: it has returned, or its next step changes its state
CleanProgresses == pc = "done" \/ ENABLED <<NextClean>>_vars

\* C1: clean is total: on every input the scanning loop terminates and a
\* string is returned (no reachable state of clean repeats for ever).
CleanTerminates == CleanProgresses /\ (pc = "done" => result # NoResult)

\* on every input on which clean returns, it returns the reference normalisation
CleanReferenceOnReturn == pc = "done" => result = RefClean(p)

\* C3: for every input p, clean(p) equals the reference normalisation: clean
\* returns, and what it returns is RefClean(p).
CleanEqualsReference == CleanProgresses /\ CleanReferenceOnReturn

\* wherever clean returns, cleaning its result again returns the same string
CleanIdempotentOnReturn == pc = "done" => Clean(result) = result

\* C4: cleaning is idempotent: for all paths p, clean(p) is a string c and
\* clean(c) = c.
CleanIdempotent == CleanProgresses /\ CleanIdempotentOnReturn

\* p is made of '/' and at least one '..' segment, and nothing else
OnlyDotDot(s) ==
    LET segs == Segments(s)
    IN  /\ \A i \in 1..Len(segs) : segs[i] \in {<<>>, DotDotSeg}
        /\ \E i \in 1..Len(segs) : segs[i] = DotDotSeg

HasDotDotSegment(s) ==
    LET segs == Segments(s)
    IN  \E i \in 1..Len(segs) : segs[i] = DotDotSeg

\* C5: no-escape: whatever clean returns is rooted at '/' and holds no '..'
\* segment, and an input made only of '..' segments is cleaned to exactly "/".
NoEscape ==
    /\ pc = "done" => /\ result # <<>>
                      /\ result[1] = "/"
                      /\ ~HasDotDotSegment(result)
    /\ OnlyDotDot(p) => /\ CleanProgresses
                        /\ pc = "done" => result = <<"/">>

\* clean returned "/" for an input whose second '..' has nothing left to pop
NoEscapeWitness ==
    /\ pc = "done"
    /\ p = <<"a", "/", ".", ".", "/", ".", ".">>
    /\ result = <<"/">>

(***************************************************************************)
(* Properties of Router::serve (checked under Spec)                        *)
(***************************************************************************)
Served == req # NoReq

\* what the tree of the request's method answers for the raw path
ReqNode == IF Served THEN trees[req.method] ELSE {}
ReqLookup == At(ReqNode, req.path)
ReqExact == ReqNode # {} /\ ReqLookup.ok
ReqTsr == ReqNode # {} /\ ~ReqLookup.ok /\ ReqLookup.tsr

Kinds == {"Boxed", "Redirect", "Options", "MethodNotAllowed", "NotFound"}

\* C2: serve is total: for every method, path, flags and fallback handlers it
\* returns, and what it returns is one of the five kinds of outcome.
ServeTotal == Served => outcome.kind \in Kinds

\* C6: when the tree of the request's method matches the raw path, serve
\* returns the route's handler with the matcher's parameters attached in
\* pattern order, whatever the flags and the fallback handlers are.
ExactMatchInvokes ==
    \A pat \in ReqNode :
        (Served /\ Match(pat, req.path) # NoMatch) =>
            /\ outcome.kind = "Boxed"
            /\ outcome.via = "exact"
            /\ outcome.handler = <<req.method, pat>>
            /\ outcome.params = Match(pat, req.path)
            /\ outcome.location = NoPath
            /\ outcome.allow = NoHeader

\* GET /a/A is served by the route GET /:x/:y with x = a and y = A, in that
\* order, on a router whose four flags are off
ExactMatchWitness ==
    /\ req = [method |-> "GET", path |-> <<"/", "a", "/", "A">>]
    /\ ~redirect_trailing_slash /\ ~redirect_fixed_path
    /\ ~handle_method_not_allowed /\ ~handle_options
    /\ outcome.kind = "Boxed"
    /\ outcome.handler = <<"GET", <<"/", ":", "x", "/", ":", "y">>>>
    /\ outcome.params = << <<<<"x">>, <<"a">>>>, <<<<"y">>, <<"A">>>> >>

\* C7: redirect status law: a Redirect carries 301 for GET and 308 for every
\* other method.
RedirectStatusLaw ==
    (Served /\ outcome.kind = "Redirect") =>
        outcome.code = IF req.method = "GET" THEN 301 ELSE 308

\* a fixed-path redirect of a POST request carries 308
RedirectStatusWitness ==
    /\ Served
    /\ req.method = "POST"
    /\ outcome.kind = "Redirect"
    /\ outcome.via = "fixed_path"
    /\ outcome.code = 308

\* the raw path with exactly its final '/' removed, or with one '/' appended
SlashFlipped(path) ==
    IF path[Len(path)] = "/"
    THEN [i \in 1..(Len(path) - 1) |-> path[i]]
    ELSE [i \in 1..(Len(path) + 1) |-> IF i <= Len(path) THEN path[i] ELSE "/"]

\* C8: trailing-slash recovery: on a trailing-slash-only mismatch, with
\* redirect_trailing_slash on, a method other than CONNECT and a path other
\* than "/", serve redirects to the raw path with its final '/' removed or
\* one '/' appended; with redirect_trailing_slash off no trailing-slash
\* redirect is produced (a Redirect then comes from the fixed-path step only).
TrailingSlashRedirect ==
    Served =>
        /\ (ReqTsr /\ redirect_trailing_slash
                /\ req.method # "CONNECT" /\ req.path # <<"/">>) =>
              /\ outcome.kind = "Redirect"
              /\ outcome.via = "trailing_slash"
              /\ outcome.location = SlashFlipped(req.path)
        /\ ~redirect_trailing_slash =>
              /\ outcome.via # "trailing_slash"
              /\ outcome.kind = "Redirect" =>
                    redirect_fixed_path /\ outcome.via = "fixed_path"

\* GET /a/A/ is redirected to /a/A: the route is GET /:x/:y
TrailingSlashWitness ==
    /\ req = [method |-> "GET", path |-> <<"/", "a", "/", "A", "/">>]
    /\ ReqTsr /\ redirect_trailing_slash
    /\ outcome.kind = "Redirect"
    /\ outcome.location = <<"/", "a", "/", "A">>

\* the fixed-path step is reached: a tree, no exact match, no trailing-slash
\* redirect, not CONNECT, not "/"
ReqFixedPathStep ==
    /\ ReqNode # {} /\ ~ReqLookup.ok
    /\ ~(ReqLookup.tsr /\ redirect_trailing_slash)
    /\ req.method # "CONNECT" /\ req.path # <<"/">>

\* C9: fixed-path recovery: at the fixed-path step with redirect_fixed_path
\* on, serve computes clean of the raw path and asks the method's tree for a
\* case-insensitive match of it: a path f the tree returns gives
\* Redirect(f, status); with redirect_fixed_path off clean is not called and
\* no fixed-path redirect is produced.
FixedPathRecovery ==
    Served =>
        /\ (ReqFixedPathStep /\ redirect_fixed_path) =>
              /\ outcome.cleaned = req.path
              /\ outcome.kind # "NoReturn"
              /\ LET f == PathIgnoreCase(ReqNode, RefClean(req.path),
                                        redirect_trailing_slash)
                 IN  f # NoPath =>
                        /\ outcome.kind = "Redirect"
                        /\ outcome.via = "fixed_path"
                        /\ outcome.location = f
                        /\ outcome.code = IF req.method = "GET" THEN 301 ELSE 308
        /\ ~redirect_fixed_path =>
              /\ outcome.cleaned = NoPath
              /\ outcome.via # "fixed_path"
              /\ ReqFixedPathStep => outcome.kind # "Redirect"

\* what holds of the fixed-path step on the requests on which clean returns:
\* the tree is asked for the cleaned path, a path f it returns gives
\* Redirect(f, status) and none gives no redirect
FixedPathRedirectOnReturn ==
    Served =>
        /\ (ReqFixedPathStep /\ redirect_fixed_path) =>
              /\ outcome.cleaned = req.path
              /\ outcome.kind # "NoReturn" =>
                    LET f == PathIgnoreCase(ReqNode, RefClean(req.path),
                                            redirect_trailing_slash)
                    IN  IF f # NoPath
                        THEN /\ outcome.kind = "Redirect"
                             /\ outcome.via = "fixed_path"
                             /\ outcome.location = f
                             /\ outcome.code = IF req.method = "GET" THEN 301 ELSE 308
                        ELSE outcome.kind # "Redirect"
        /\ ~redirect_fixed_path =>
              /\ outcome.cleaned = NoPath
              /\ outcome.via # "fixed_path"
              /\ ReqFixedPathStep => outcome.kind # "Redirect"

\* GET /a// with redirect_trailing_slash off: clean gives /a/, the route GET
\* /a/ matches it, and the request is redirected there
FixedPathWitness ==
    /\ req = [method |-> "GET", path |-> <<"/", "a", "/", "/">>]
    /\ ~redirect_trailing_slash /\ redirect_fixed_path
    /\ ReqFixedPathStep
    /\ outcome.kind = "Redirect"
    /\ outcome.location = <<"/", "a", "/">>
    /\ outcome.cleaned = req.path

\* C10: a CONNECT request and a request for "/" are never redirected, whatever
\* the tree reports and the flags are: without an exact match they go
\* straight to the OPTIONS / 405 / not-found fallback, clean not being called.
NoRedirectForConnectOrRoot ==
    (Served /\ (req.method = "CONNECT" \/ req.path = <<"/">>)) =>
        /\ outcome.kind # "Redirect"
        /\ outcome.kind # "NoReturn"
        /\ outcome.cleaned = NoPath
        /\ ~ReqExact => outcome.via \in {"options", "method_not_allowed", "not_found"}

\* CONNECT /a on a tree that reports a trailing-slash mismatch, both redirect
\* flags on: the not-found handler is called
NoRedirectWitness ==
    /\ req = [method |-> "CONNECT", path |-> <<"/", "a">>]
    /\ ReqTsr
    /\ redirect_trailing_slash /\ redirect_fixed_path
    /\ outcome.kind = "Boxed"
    /\ outcome.via = "not_found"

(***************************************************************************)
(* Properties of Router::allowed (checked under Spec)                      *)
(***************************************************************************)
AllowedCalled == allow_call # NoAllowCall

\* the methods other than OPTIONS whose tree matches path exactly
ExactMethods(path) == {m \in Methods \ {"OPTIONS"} : At(trees[m], path).ok}

\* the methods other than OPTIONS that have a tree
TreeMethods == {m \in Methods \ {"OPTIONS"} : trees[m] # {}}

\* list holds exactly the methods of ms, each once, and then OPTIONS; or
\* nothing when ms is empty
ListsThenOptions(list, ms) ==
    IF ms = {} THEN list = <<>>
    ELSE /\ Len(list) = Cardinality(ms) + 1
         /\ list[Len(list)] = "OPTIONS"
         /\ {list[i] : i \in 1..(Len(list) - 1)} = ms

\* C11 as stated: for every path P, allowed(P) is empty when no tree of a
\* method other than OPTIONS matches P exactly, and otherwise lists exactly
\* those methods, each once, followed by OPTIONS.
AllowedExactForEveryPath ==
    AllowedCalled => ListsThenOptions(allow_call.list, ExactMethods(allow_call.path))

\* C11: for every path P other than "*", allowed(P) is empty when no tree of
\* a method other than OPTIONS matches P exactly, and otherwise lists exactly
\* those methods, each once, followed by OPTIONS; allowed("*") lists every
\* method other than OPTIONS that has a tree, matching or not, then OPTIONS.
AllowedCorrect ==
    AllowedCalled =>
        IF allow_call.path = Star
        THEN ListsThenOptions(allow_call.list, TreeMethods)
        ELSE ListsThenOptions(allow_call.list, ExactMethods(allow_call.path))

\* routes GET /a/ and POST /a/ and none for PUT: allowed("/a/") holds GET,
\* POST and OPTIONS, not PUT, and has length 3
AllowedWitness ==
    /\ allow_call.path = <<"/", "a", "/">>
    /\ <<"/", "a", "/">> \in trees["GET"] \cap trees["POST"]
    /\ Len(allow_call.list) = 3
    /\ allow_call.list[3] = "OPTIONS"
    /\ {allow_call.list[1], allow_call.list[2]} = {"GET", "POST"}

(***************************************************************************)
(* Properties of the fallback of Router::serve (checked under Spec)        *)
(***************************************************************************)
\* the request is an OPTIONS request that handle_options answers
ReqAutoOptions ==
    /\ req.method = "OPTIONS" /\ handle_options
    /\ Allowed(req.path) # <<>>

\* no exact match, no redirect, and not an OPTIONS request that
\* handle_options answers
ReqMethodFallback ==
    /\ Served /\ ~ReqExact
    /\ outcome.kind # "Redirect"
    /\ ~ReqAutoOptions

\* what C12 says of a request at the method fallback
MethodNotAllowedOutcome ==
    IF handle_method_not_allowed /\ Allowed(req.path) # <<>>
    THEN IF method_not_allowed # NoHandler
         THEN /\ outcome.kind = "Boxed"
              /\ outcome.handler = method_not_allowed
         ELSE /\ outcome.kind = "MethodNotAllowed"
              /\ outcome.allow = Join(Allowed(req.path), 1)
    ELSE /\ outcome.kind # "MethodNotAllowed"
         /\ outcome.via = "not_found"
         /\ IF not_found # NoHandler
            THEN outcome.kind = "Boxed" /\ outcome.handler = not_found
            ELSE outcome.kind = "NotFound"

\* C12: method-not-allowed: a request with no exact match and no redirect
\* that is not an OPTIONS request answered by handle_options gets
\* MethodNotAllowed(allowed) (or the method_not_allowed handler) when
\* handle_method_not_allowed is on and allowed(raw_path) is non-empty, and is
\* delegated to the not-found fallback, never MethodNotAllowed, otherwise.
MethodNotAllowedLaw == ReqMethodFallback => MethodNotAllowedOutcome

\* the same of every request on which serve returns
MethodNotAllowedOnReturn ==
    (ReqMethodFallback /\ outcome.kind # "NoReturn") => MethodNotAllowedOutcome

\* PUT /a/ with routes GET /a/ and POST /a/: MethodNotAllowed with the two
\* methods and OPTIONS
MethodNotAllowedWitness ==
    /\ req = [method |-> "PUT", path |-> <<"/", "a", "/">>]
    /\ outcome.kind = "MethodNotAllowed"
    /\ outcome.allow \in {<<"GET", ", ", "POST", ", ", "OPTIONS">>,
                          <<"POST", ", ", "GET", ", ", "OPTIONS">>}

\* the OPTIONS request was answered automatically: by the synthesized reply
\* or by the global_options handler
AutoAnswered ==
    \/ outcome.kind = "Options"
    \/ /\ outcome.kind = "Boxed"
       /\ global_options # NoHandler
       /\ outcome.handler = global_options

\* a redirect applies to the request: the trailing-slash or the fixed-path
\* step of serve finds one
ReqRedirectApplies ==
    /\ ReqNode # {} /\ ~ReqLookup.ok
    /\ req.method # "CONNECT" /\ req.path # <<"/">>
    /\ \/ ReqLookup.tsr /\ redirect_trailing_slash
       \/ /\ redirect_fixed_path
          /\ PathIgnoreCase(ReqNode, RefClean(req.path),
                            redirect_trailing_slash) # NoPath

\* C13: automatic OPTIONS: a request is answered automatically (Options, or
\* the global_options handler) only if it is an OPTIONS request,
\* handle_options is on, no OPTIONS route matches the raw path exactly, no
\* redirect applies and allowed(raw_path) is non-empty; an OPTIONS route that
\* matches the raw path is invoked instead, whatever handle_options and
\* global_options are.
AutoOptionsOnlyIf ==
    Served =>
        /\ AutoAnswered =>
              /\ req.method = "OPTIONS"
              /\ handle_options
              /\ ~ReqExact
              /\ ~ReqRedirectApplies
              /\ Allowed(req.path) # <<>>
              /\ outcome.via = "options"
              /\ outcome.kind = "Options" =>
                    /\ global_options = NoHandler
                    /\ outcome.allow = Join(Allowed(req.path), 1)
        /\ (req.method = "OPTIONS" /\ ReqExact) =>
              /\ ~AutoAnswered
              /\ outcome.kind = "Boxed"
              /\ outcome.via = "exact"
              /\ outcome.handler = <<"OPTIONS", ReqLookup.value>>

\* OPTIONS /a/ with the routes GET /a/ and OPTIONS /:x/:y: the OPTIONS tree
\* does not match, no redirect applies, and the reply lists GET and OPTIONS
AutoOptionsWitness ==
    /\ req = [method |-> "OPTIONS", path |-> <<"/", "a", "/">>]
    /\ trees["OPTIONS"] # {}
    /\ redirect_trailing_slash /\ redirect_fixed_path
    /\ outcome.kind = "Options"
    /\ outcome.allow = <<"GET", ", ", "OPTIONS">>

\* OPTIONS /a/ with the routes GET /a/ and OPTIONS /a/, handle_options on
\* and global_options set: the route's handler is invoked
OptionsRoutePriority ==
    /\ req = [method |-> "OPTIONS", path |-> <<"/", "a", "/">>]
    /\ handle_options /\ global_options # NoHandler
    /\ Allowed(req.path) # <<>>
    /\ outcome.handler = <<"OPTIONS", <<"/", "a", "/">>>>

\* serve delegated to the global_options or the method_not_allowed handler
Delegated ==
    /\ Served
    /\ outcome.kind = "Boxed"
    /\ outcome.via \in {"options", "method_not_allowed"}

\* C14: when serve delegates to the global_options or to the
\* method_not_allowed handler, the Allow header with the allowed methods of
\* the request path has been set before the handler is called.
AllowSetBeforeHandler ==
    Delegated => outcome.allow = Join(Allowed(req.path), 1)

\* C15: as the redirect options are documented, a trailing-slash or
\* fixed-path redirect carries status 301 for GET requests and status 307
\* for every other method.
RedirectStatusDocumented ==
    (Served /\ outcome.kind = "Redirect"
            /\ outcome.via \in {"trailing_slash", "fixed_path"}) =>
        outcome.code = IF req.method = "GET" THEN 301 ELSE 307

(***************************************************************************)
(* The configuration of a router built from Router::default() (checked     *)
(* under SpecDefault)                                                      *)
(***************************************************************************)
\* no route registered and no fallback handler set by the builder yet
Untouched ==
    /\ \A m \in Methods : trees[m] = {}
    /\ global_options # UserGlobalOptions
    /\ method_not_allowed # UserMethodNotAllowed
    /\ not_found # UserNotFound

\* C16: configuration invariant: Router::default() has the four flags on,
\* global_options and method_not_allowed unset and not_found set; in every
\* router built from it by builder calls the four flags are still on and
\* not_found is still set, and serve never returns the synthesized NotFound.
ConfigInvariant ==
    /\ Untouched =>
          /\ global_options = NoHandler
          /\ method_not_allowed = NoHandler
          /\ not_found = DefaultNotFound
    /\ redirect_trailing_slash /\ redirect_fixed_path
    /\ handle_method_not_allowed /\ handle_options
    /\ not_found # NoHandler
    /\ Served =>
          /\ outcome.kind # "NotFound"
          /\ outcome.via = "not_found" =>
                outcome.kind = "Boxed" /\ outcome.handler = not_found

\* after handle, handle_options(), global_options(g) and not_found(h), a
\* request that nothing matches is given to h
ConfigWitness ==
    /\ trees["GET"] # {}
    /\ global_options = UserGlobalOptions
    /\ not_found = UserNotFound
    /\ handle_options
    /\ req = [method |-> "GET", path |-> <<"/", "A">>]
    /\ outcome.via = "not_found"
    /\ outcome.handler = UserNotFound

(***************************************************************************)
(* Properties of ResponseFut::poll (checked under SpecFut)                 *)
(***************************************************************************)
\* the live futures that were polled
PolledFuts == {i \in DOMAIN futs : futs[i].polled # NotPolled}

\* C17: response future state machine: a poll returns Pending only if the
\* outcome is an invoked handler whose future returned Pending on that same
\* poll; a synthesized outcome (Redirect, Options, MethodNotAllowed,
\* NotFound) is Ready on its first poll (no poll of it returns Pending); and
\* when the handler's future is Ready the ResponseFut is Ready on that same
\* poll.
FutStateMachine ==
    \A i \in PolledFuts :
        LET out == futs[i].out
            polled == futs[i].polled
        IN  /\ polled.value.tag = "Pending" =>
                  out.kind = "Boxed" /\ polled.inner.tag = "Pending"
            /\ out.kind # "Boxed" =>
                  /\ polled.value.tag = "Ok"
                  /\ polled.inner = NoValue
            /\ (out.kind = "Boxed" /\ polled.inner.tag \in {"Ok", "Err"}) =>
                  polled.value.tag = polled.inner.tag

\* the future of GET /a/ is Pending after a poll, and the future of a later
\* OPTIONS /a/ was Ready on its first poll
FutWitness ==
    /\ Len(futs) = 2
    /\ futs[1].out.kind = "Boxed"
    /\ futs[1].out.handler = <<"GET", <<"/", "a", "/">>>>
    /\ futs[1].polled.value.tag = "Pending"
    /\ futs[2].out.kind = "Options"
    /\ futs[2].polled.value.tag = "Ok"

\* C18: handler failure is propagated: when the future of the invoked
\* handler (a route's, global_options, method_not_allowed or not_found)
\* resolves to an error, the ResponseFut resolves to that error of that
\* handler: not to a NotFound or another synthesized response, and not to
\* the result of another handler.
HandlerErrorPropagated ==
    \A i \in PolledFuts :
        futs[i].polled.inner.tag = "Err" =>
            /\ futs[i].out.kind = "Boxed"
            /\ futs[i].polled.inner.by = futs[i].out.handler
            /\ futs[i].polled.value = ReadyErr(futs[i].out.handler)

\* the not_found handler set by the builder failed, and the ResponseFut
\* resolved to its error
HandlerErrorWitness ==
    \E i \in DOMAIN futs :
        /\ futs[i].out.handler = UserNotFound
        /\ futs[i].polled.value = ReadyErr(UserNotFound)

(***************************************************************************)
(* Properties of concurrent calls of serve (checked under SpecShared)      *)
(***************************************************************************)
\* C19: serve is read-only and requests are independent: under every
\* interleaving of concurrent calls on one shared router the trees, the
\* flags and the fallback handlers stay as each call found them, each call
\* returns (or fails to return) what the same request gives when served
\* alone, and two calls with the same request return the same.
ServeIndependent ==
    /\ \A t \in Tasks :
          /\ calls[t].pc # "idle" => calls[t].shared = routerVars
          /\ calls[t].pc = "done" => calls[t].outcome = calls[t].alone
          /\ calls[t].pc = "hung" => calls[t].alone.kind = "NoReturn"
    /\ \A t, u \in Tasks :
          (calls[t].pc = "done" /\ calls[u].pc = "done"
                /\ calls[t].req = calls[u].req) =>
              calls[t].outcome = calls[u].outcome

\* two tasks sent OPTIONS /a/: one has its reply while the other, between
\* its lookup and its fallback, has yet to read the method table
ServeIndependentWitness ==
    \E t, u \in Tasks :
        /\ t # u
        /\ calls[t].req = [method |-> "OPTIONS", path |-> <<"/", "a", "/">>]
        /\ calls[u].req = calls[t].req
        /\ calls[t].pc = "done"
        /\ calls[t].outcome.kind = "Options"
        /\ calls[u].pc = "fallback"

(***************************************************************************)
(* The order of the decisions of Router::serve (checked under Spec)        *)
(***************************************************************************)
\* the trailing-slash redirect applies (serve exempts CONNECT and "/")
ReqTsrApplies ==
    /\ ReqTsr /\ redirect_trailing_slash
    /\ req.method # "CONNECT" /\ req.path # <<"/">>

\* the OPTIONS / 405 fallback applies
ReqFallbackApplies ==
    /\ Allowed(req.path) # <<>>
    /\ IF req.method = "OPTIONS" /\ handle_options THEN TRUE
       ELSE handle_method_not_allowed

\* what the order of the decisions makes of the request
PriorityOutcome ==
    /\ ReqExact => outcome.via = "exact"
    /\ ReqTsrApplies =>
          /\ outcome.kind = "Redirect"
          /\ outcome.via = "trailing_slash"
          /\ outcome.location = SlashFlipped(req.path)
    /\ ReqRedirectApplies => outcome.kind = "Redirect"
    /\ outcome.via = "fixed_path" => ~ReqExact /\ ~ReqTsrApplies
    /\ outcome.via \in {"options", "method_not_allowed", "not_found"} =>
          ~ReqExact /\ ~ReqRedirectApplies
    /\ outcome.via = "not_found" => ~ReqFallbackApplies

\* C20: decision priority within one request: exact match, then
\* trailing-slash redirect, then fixed-path redirect, then the OPTIONS / 405
\* fallback, then not-found; a trailing-slash redirect that applies is the
\* outcome whatever the case-insensitive lookup would return, and a redirect
\* that applies is chosen even when allowed(raw_path) is non-empty.
DecisionPriority == Served => PriorityOutcome

\* the same of every request on which serve returns
DecisionPriorityOnReturn ==
    (Served /\ outcome.kind # "NoReturn") => PriorityOutcome

\* GET /.a//A with the route GET /:x/:y: the cleaned path /.a/A matches, so
\* a fixed-path redirect applies
PriorityFailingInput ==
    /\ req = [method |-> "GET", path |-> <<"/", ".", "a", "/", "/", "A">>]
    /\ ReqRedirectApplies
    /\ outcome.kind = "NoReturn"

(***************************************************************************)
(* clean against the variant that allocates its buffer at the start and    *)
(* writes every output byte into it (checked under SpecClean)              *)
(***************************************************************************)
\* the variant's locals at the start: a buffer of n + 1 bytes that holds '/'
EagerInit(s) ==
    [r |-> IF s[1] = "/" THEN 1 ELSE 0,
     w |-> 1,
     buf |-> [Zeros(Len(s) + 1) EXCEPT ![1] = "/"],
     trailing |-> Len(s) > 1 /\ s[Len(s)] = "/"]

\* buf[w] = c
EagerPut(st, c) == [st EXCEPT !.buf = [st.buf EXCEPT ![st.w + 1] = c], !.w = st.w + 1]

RECURSIVE EagerCopy(_, _)
EagerCopy(s, st) ==
    IF st.r < Len(s) /\ Byte(s, st.r) # "/"
    THEN EagerCopy(s, [EagerPut(st, Byte(s, st.r)) EXCEPT !.r = st.r + 1])
    ELSE st

\* one iteration of the variant's loop
EagerIter(s, st) ==
    CASE IsSlash(s, st.r) -> [st EXCEPT !.r = st.r + 1]
      [] IsDotLast(s, st.r) -> [st EXCEPT !.trailing = TRUE, !.r = st.r + 1]
      [] IsDotSlash(s, st.r) -> [st EXCEPT !.r = st.r + 2]
      [] IsDotDot(s, st.r) ->
            [st EXCEPT !.r = st.r + 3,
                       !.w = IF st.w > 1 THEN Backtrack(st.buf, st.w - 1) ELSE st.w]
      [] IsDotOther(s, st.r) -> st
      [] OTHER -> EagerCopy(s, IF st.w > 1 THEN EagerPut(st, "/") ELSE st)

EagerFinish(s, st) ==
    LET fin == IF st.trailing /\ st.w > 1 THEN EagerPut(st, "/") ELSE st
    IN  SubSeq(fin.buf, 1, fin.w)

RECURSIVE EagerLoop(_, _)
EagerLoop(s, st) ==
    IF st.r < Len(s)
    THEN LET nx == EagerIter(s, st)
         IN  IF nx = st THEN Hang ELSE EagerLoop(s, nx)
    ELSE EagerFinish(s, st)

\* the variant of clean that always allocates
CleanEager(s) == IF s = <<>> THEN <<"/">> ELSE EagerLoop(s, EagerInit(s))

\* the output clean has written so far: buf[..w], or p[..w] while buf is empty
Written(s, st) ==
    IF st.buf = <<>> THEN SubSeq(s, 1, st.w) ELSE SubSeq(st.buf, 1, st.w)

\* what a run shows: the cursors, the flag and the output written so far
Visible(s, st) == <<st.r, st.w, st.trailing, Written(s, st)>>

\* the variant's locals that hold the same output as st
Eager(s, st) ==
    [st EXCEPT !.buf = [i \in 1..(Len(s) + 1) |->
                           IF i <= st.w THEN Written(s, st)[i] ELSE Zero]]

\* the slice clean reads and compares against: p while buf is empty
Backing(s, st) == IF st.buf = <<>> THEN s ELSE st.buf

\* the indices the next step of clean uses are within bounds: p[r + 1] and
\* p[r + 2] of the '.' arm, p[w] or buf[w] of the backtracking loop, and
\* p[w] or buf[w] of every buf_app of the step
IndicesInBounds(s, st) ==
    IF st.r < Len(s)
    THEN LET nx == CleanIter(s, st)
         IN  /\ (IsDot(s, st.r) /\ ~IsDotLast(s, st.r)) => st.r + 1 < Len(s)
             /\ (IsDot(s, st.r) /\ ~IsDotLast(s, st.r) /\ ~IsDotSlash(s, st.r)
                    /\ Byte(s, st.r + 1) = "." /\ st.r + 2 # Len(s)) =>
                   st.r + 2 < Len(s)
             /\ (IsDotDot(s, st.r) /\ st.w > 1) => st.w - 1 < Len(Backing(s, st))
             /\ nx.w > st.w =>
                   /\ st.buf = <<>> => nx.w - 1 < Len(s)
                   /\ nx.w <= Len(Backing(s, nx))
    ELSE (st.trailing /\ st.w > 1) =>
             /\ st.w < Len(Backing(s, st))
             /\ st.buf = <<>> => st.w < Len(s)

\* the next step of clean and of the variant, from the same output, show the same
StepsAgree(s, st) ==
    IF st.r < Len(s)
    THEN Visible(s, CleanIter(s, st)) = Visible(s, EagerIter(s, Eager(s, st)))
    ELSE CleanFinish(s, st) = EagerFinish(s, Eager(s, st))

\* C21: the lazy-buffer optimisation of clean is unobservable: on every input
\* clean behaves as the variant that writes every output byte into a buffer
\* allocated at the start (the same string returned, or neither returns);
\* while buf is empty the output written so far is the input prefix p[..w];
\* and every index used on p and buf is within bounds.
LazyBufferUnobservable ==
    /\ pc # "idle" => (Clean(p) = CleanEager(p))
    /\ pc = "done" => result = CleanEager(p)
    /\ pc = "loop" =>
          /\ buf = <<>> => w <= Len(p)
          /\ IndicesInBounds(p, locals)
          /\ locals = CleanInit(p) => Visible(p, locals) = Visible(p, EagerInit(p))
          /\ StepsAgree(p, locals)

\* clean("/a/../b") has returned /b from a buffer that was allocated when
\* 'b' came to be written over 'a'
LazyBufferWitness ==
    /\ pc = "done"
    /\ p = <<"/", "a", "/", ".", ".", "/", "b">>
    /\ buf # <<>>
    /\ result = <<"/", "b">>

(***************************************************************************)
(* The order of the Allow header (checked under Spec)                      *)
(***************************************************************************)
\* the routes are GET /a/ and POST /a/, and no method has another route
HomeRoutes ==
    /\ trees["GET"] = {<<"/", "a", "/">>}
    /\ trees["POST"] = {<<"/", "a", "/">>}
    /\ \A m \in Methods \ {"GET", "POST"} : trees[m] = {}

\* serve has answered OPTIONS /a/ with handle_options on
OptionsHome ==
    /\ Served
    /\ req.method = "OPTIONS" /\ req.path = <<"/", "a", "/">>
    /\ handle_options

AllowGetPost == <<"GET", ", ", "POST", ", ", "OPTIONS">>
AllowPostGet == <<"POST", ", ", "GET", ", ", "OPTIONS">>

\* C22 as stated: with routes GET and POST at one path and no OPTIONS route,
\* an OPTIONS request for the path with handle_options on yields the
\* synthesized reply whose Allow header is exactly "GET, POST, OPTIONS".
AllowOrderFixed ==
    (HomeRoutes /\ OptionsHome) =>
        /\ outcome.kind = "Options"
        /\ outcome.allow = AllowGetPost

\* C22: the allowed-method list is fixed by the registered routes up to the
\* order of the methods before OPTIONS, which is the iteration order of the
\* method table: with routes GET and POST at one path (registered in either
\* order), no OPTIONS route and no global_options handler, an OPTIONS request
\* for the path with handle_options on yields the synthesized reply whose Allow
\* header is "GET, POST, OPTIONS" or "POST, GET, OPTIONS"; two routers built
\* from the same registrations produce Allow headers that name the same
\* methods, each once and OPTIONS last, in orders that may differ.
AllowOrderFromTable ==
    /\ (HomeRoutes /\ OptionsHome /\ global_options = NoHandler) =>
          /\ outcome.kind = "Options"
          /\ outcome.allow \in {AllowGetPost, AllowPostGet}
          /\ outcome.allow = (IF keys[1] = "GET" THEN AllowGetPost ELSE AllowPostGet)
    /\ (Served /\ outcome.kind \in {"Options", "MethodNotAllowed"}) =>
          LET ms == IF req.path = Star THEN TreeMethods ELSE ExactMethods(req.path)
          IN  \E list \in [1..(Cardinality(ms) + 1) -> Methods] :
                  /\ ListsThenOptions(list, ms)
                  /\ outcome.allow = Join(list, 1)

\* the router whose method table iterates POST before GET has answered
\* OPTIONS /a/ with the Allow header "POST, GET, OPTIONS"
AllowOrderWitness ==
    /\ HomeRoutes /\ OptionsHome
    /\ outcome.kind = "Options"
    /\ outcome.allow = AllowPostGet

(***************************************************************************)
(* Following a redirect (checked under Spec)                               *)
(***************************************************************************)
\* what serve gives the client that follows the redirect with the same method
Followed == Serve(req.method, outcome.location)

\* C23: no redirect chains or loops: whenever serve(m, p) yields a redirect to
\* q, q differs from p and serve(m, q) on the same router invokes the handler
\* of a route that q matches exactly, so a client that follows redirects with
\* the same method reaches a handler after exactly one redirect.
NoRedirectChain ==
    (Served /\ outcome.kind = "Redirect") =>
        /\ outcome.location # req.path
        /\ Followed.kind = "Boxed"
        /\ Followed.via = "exact"

\* GET /A/ was redirected by the fixed-path step to /a/, which the route
\* GET /a/ matches
NoRedirectChainWitness ==
    /\ Served
    /\ req = [method |-> "GET", path |-> <<"/", "A", "/">>]
    /\ outcome.kind = "Redirect"
    /\ outcome.via = "fixed_path"
    /\ outcome.location = <<"/", "a", "/">>
    /\ Followed.kind = "Boxed"

====
